---- MODULE Spec2Model ----
(***************************************************************************)
(* Lumina (models/lumina/model.py): construction, the variable-length      *)
(* packing of patchify_and_embed, the rotary lookup of RopeEmbedder, and   *)
(* unpatchify, as a state machine over one model instance.                 *)
(*                                                                         *)
(* Tensors are records [shape, data] holding the row-major (contiguous)    *)
(* element sequence; view / permute / flatten are computed on indices.     *)
(* The learned layers (linear maps, attention, normalisation) are opaque:  *)
(* a token they produce is a tag naming the batch row and sequence index   *)
(* it was produced at.                                                     *)
(***************************************************************************)
EXTENDS Integers, Sequences, FiniteSets, TLC

VARIABLES
    pc,      \* position of the caller: "init", "construct_failed", "ready",
             \* "embedded", "final", "returned", "raised"
    cfg,     \* the arguments Lumina(...) was called with; they are the
             \* instance's configuration once pc has left "init" without
             \* reaching "construct_failed"
    rope,    \* self.rope_embedder.freqs_cis: [obj, tables]
    call,    \* arguments of the forward call in progress
    pe,      \* locals and results of patchify_and_embed
    out,     \* output of final_layer: out[i][s] is a token of p*p*C elements
    imgs,    \* result of unpatchify
    err      \* the exception that ended the call, "none" if none

vars == <<pc, cfg, rope, call, pe, out, imgs, err>>

----------------------------------------------------------------------------
(* Bounds of the model *)

MaxBatch == 2       \* samples in one call
MaxCap == 2         \* L_max, the padded caption length of cap_feats
InChannels == 2     \* channels of an image in the packing specifications
MaxDim == 4         \* image height / width in the round-trip specification
MaxPatch == 2       \* patch_size in the round-trip specification
MaxChan == 2        \* channels in the round-trip specification
MaxAxisDim == 4     \* an entry of dim handed to precompute_freqs_cis
MaxAxisLen == 2     \* an entry of end handed to precompute_freqs_cis
MaxHeads == 8       \* n_heads and n_kv_heads of JointAttention

(* Program constants *)

PatchSize == 2          \* Lumina_2b: patch_size=2
NRefinerLayers == 2     \* n_refiner_layers default
NLayers == 26           \* Lumina_2b: n_layers=26

Devices == {"cpu", "cuda"}

----------------------------------------------------------------------------
(* Integer and sequence helpers *)

RECURSIVE Prod(_)
Prod(s) == IF s = <<>> THEN 1 ELSE Head(s) * Prod(Tail(s))

RECURSIVE Sum(_)
Sum(s) == IF s = <<>> THEN 0 ELSE Head(s) + Sum(Tail(s))

RECURSIVE SeqMax(_)
\* max() of a non-empty list
SeqMax(s) ==
    IF Len(s) = 1 THEN s[1]
    ELSE LET m == SeqMax(Tail(s)) IN IF Head(s) >= m THEN Head(s) ELSE m

RECURSIVE Concat(_)
Concat(ss) == IF ss = <<>> THEN <<>> ELSE Head(ss) \o Concat(Tail(ss))

----------------------------------------------------------------------------
(* Tensor operations used by patchify / unpatchify *)

Numel(t) == Prod(t.shape)

\* Tensor.view(*shape) is defined only when the element counts agree
CanView(t, shape) == Prod(shape) = Numel(t)

TView(t, shape) == [shape |-> shape, data |-> t.data]

\* strides of a contiguous tensor of the given shape
Strides(shape) ==
    [k \in 1..Len(shape) |-> Prod(SubSeq(shape, k + 1, Len(shape)))]

\* Tensor.permute(*dims) of a tensor of five dimensions (both uses permute
\* five): dims are 0-based; result dimension k is source dimension dims[k],
\* so the element at result index idx is the source element whose index
\* along dims[k] is idx[k]
TPermute(t, dims) ==
    LET nshape == <<t.shape[dims[1] + 1], t.shape[dims[2] + 1], t.shape[dims[3] + 1],
                    t.shape[dims[4] + 1], t.shape[dims[5] + 1]>>
        ns == Strides(nshape)
        os == Strides(t.shape)
        src(n) == ((n \div ns[1]) % nshape[1]) * os[dims[1] + 1]
                  + ((n \div ns[2]) % nshape[2]) * os[dims[2] + 1]
                  + ((n \div ns[3]) % nshape[3]) * os[dims[3] + 1]
                  + ((n \div ns[4]) % nshape[4]) * os[dims[4] + 1]
                  + ((n \div ns[5]) % nshape[5]) * os[dims[5] + 1]
    IN  [shape |-> nshape,
         data |-> [n \in 1..Prod(nshape) |-> t.data[src(n - 1) + 1]]]

\* Tensor.flatten(a, b): dimensions a..b (0-based, inclusive) become one
TFlatten(t, a, b) ==
    [shape |-> SubSeq(t.shape, 1, a)
                 \o <<Prod(SubSeq(t.shape, a + 1, b + 1))>>
                 \o SubSeq(t.shape, b + 2, Len(t.shape)),
     data |-> t.data]

\* rows of a 2-D tensor as a sequence of sequences, and back
TRows(t) ==
    [r \in 1..t.shape[1] |->
             [j \in 1..t.shape[2] |-> t.data[(r - 1) * t.shape[2] + j]]]

FromRows(rows, width) ==
    [shape |-> <<Len(rows), width>>,
     data |-> [n \in 1..(Len(rows) * width) |->
                     rows[((n - 1) \div width) + 1][((n - 1) % width) + 1]]]

----------------------------------------------------------------------------
(* precompute_freqs_cis and RopeEmbedder *)

\* one entry of a rotary table: cis(pos * theta^(-num/den)), kept symbolic
Cis(p, n, d) == [k |-> "cis", pos |-> p, num |-> n, den |-> d]

\* an entry of torch.zeros(..., dtype=complex64)
ZeroFreq == [k |-> "zero", pos |-> 0, num |-> 0, den |-> 1]

\* torch.arange(0, d, 2): the values 0, 2, ... below d
NumFreqs(d) == (d + 1) \div 2

\* freqs_cis_i of one axis: outer(arange(e), freqs) on the cpu
AxisTable(d, e) ==
    [dev |-> "cpu",
     rows |-> [p \in 1..e |-> [k \in 1..NumFreqs(d) |-> Cis(p - 1, 2 * (k - 1), d)]]]

Min(a, b) == IF a <= b THEN a ELSE b

\* every table built with the length of the first axis
precompute_freqs_cis_FirstEnd(dim, end) ==
    [i \in 1..Min(Len(dim), Len(end)) |-> AxisTable(dim[i], end[1])]

\* precompute_freqs_cis(dim, end): one table per pair of zip(dim, end)
precompute_freqs_cis(dim, end) ==
    [i \in 1..Min(Len(dim), Len(end)) |-> AxisTable(dim[i], end[i])]

\* Tensor.to(device): the same values on the given device
ToDevice(t, device) == [t EXCEPT !.dev = device]

\* a list comprehension builds a new list object, never the one it reads
FreshObj(old) == 1 - old

\* RopeEmbedder.__call__, first statement: self.freqs_cis is rebound
RopeRebind(r, device) ==
    [obj |-> FreshObj(r.obj),
     tables |-> [i \in 1..Len(r.tables) |-> ToDevice(r.tables[i], device)]]

\* index of axis i: ids[:, :, i:i+1].repeat(1, 1, K)
RopeIndex(ids, i, K) ==
    [b \in 1..Len(ids) |-> [s \in 1..Len(ids[b]) |-> [k \in 1..K |-> ids[b][s][i]]]]

\* a gather that reads, for every token, the row of the sequence's first token
Gather_FirstToken(table, index) ==
    [b \in 1..Len(index) |-> [s \in 1..Len(index[b]) |->
            [k \in 1..Len(index[b][s]) |-> table.rows[index[b][1][k] + 1][k]]]]

\* torch.gather(table.unsqueeze(0).repeat(B, 1, 1), dim=1, index):
\* out[b][s][k] = table[index[b][s][k]][k]
Gather(table, index) ==
    [b \in 1..Len(index) |-> [s \in 1..Len(index[b]) |->
            [k \in 1..Len(index[b][s]) |-> table.rows[index[b][s][k] + 1][k]]]]

\* gather raises unless every index is a row of the table
GatherInRange(table, index) ==
    \A b \in 1..Len(index) : \A s \in 1..Len(index[b]) :
        \A k \in 1..Len(index[b][s]) :
            index[b][s][k] >= 0 /\ index[b][s][k] < Len(table.rows)

\* width of a table: self.freqs_cis[i].shape[-1]
TableWidth(table) ==
    IF Len(table.rows) = 0 THEN 0 ELSE Len(table.rows[1])

\* the indices of the loop over range(len(self.axes_dims))
RopeIndices(tables, axes_dims, ids) ==
    [i \in 1..Len(axes_dims) |-> RopeIndex(ids, i, TableWidth(tables[i]))]

RopeInRange(tables, axes_dims, ids) ==
    LET index == RopeIndices(tables, axes_dims, ids)
    IN  \A i \in 1..Len(axes_dims) : GatherInRange(tables[i], index[i])

\* the per-axis results of the loop
RopeResults(tables, axes_dims, ids) ==
    LET index == RopeIndices(tables, axes_dims, ids)
    IN  [i \in 1..Len(axes_dims) |-> Gather(tables[i], index[i])]

\* torch.cat(result, dim=-1)
RopeCat(result, ids) ==
    [b \in 1..Len(ids) |-> [s \in 1..Len(ids[b]) |->
        Concat([i \in 1..Len(result) |-> result[i][b][s]])]]

\* RopeEmbedder.__call__(ids) on tables already moved to the device of ids
RopeEmbed(tables, axes_dims, ids) ==
    RopeCat(RopeResults(tables, axes_dims, ids), ids)

----------------------------------------------------------------------------
(* Tokens of the learned layers *)

\* cap_feats after cap_embedder and the context refiner: row b, index s
CapToken(b, s) == [k |-> "cap", b |-> b, s |-> s, src |-> <<>>]

\* padded_img_embed after x_embedder and the noise refiner: row b, index s,
\* embedded from the element vector src
ImgToken(b, s, src) == [k |-> "img", b |-> b, s |-> s, src |-> src]

\* a row of torch.zeros(.., self.dim)
ZeroToken == [k |-> "zero", b |-> 0, s |-> 0, src |-> <<>>]

\* element j of the final layer's output at row b, index s
OutElem(b, s, j) == [b |-> b, s |-> s, j |-> j]

\* apply_rotary_emb: x_in.reshape(*x_in.shape[:-1], -1, 2) cannot infer -1
\* for a tensor without elements, so a block raises on an empty sequence
BlocksRaise(n_blocks, bsz, seqlen) == n_blocks > 0 /\ bsz * seqlen = 0

----------------------------------------------------------------------------
(* patchify_and_embed, statement by statement *)

Count(m) == Cardinality({j \in 1..Len(m) : m[j]})

\* cap_mask.sum(dim=1).tolist()
EffectiveCapLen(cap_mask) == [i \in 1..Len(cap_mask) |-> Count(cap_mask[i])]

\* [(img.size(1), img.size(2)) for img in x]
ImgSizes(x) == [i \in 1..Len(x) |-> <<x[i].shape[2], x[i].shape[3]>>]

\* [(H // pH) * (W // pW) for (H, W) in img_sizes]
EffectiveImgLen(img_sizes, p) ==
    [i \in 1..Len(img_sizes) |-> (img_sizes[i][1] \div p) * (img_sizes[i][2] \div p)]

\* max(cap_len + img_len for ...)
MaxSeqLen(cap_lens, img_lens) ==
    SeqMax([i \in 1..Len(cap_lens) |-> cap_lens[i] + img_lens[i]])

\* row ids numbered down the columns: arange(H_tokens) tiled, not repeated
RowIds_ColumnMajor(H_tokens, W_tokens) ==
    [t \in 1..(H_tokens * W_tokens) |-> (t - 1) % H_tokens]

\* arange(H_tokens).view(-1, 1).repeat(1, W_tokens).flatten()
RowIds(H_tokens, W_tokens) ==
    [t \in 1..(H_tokens * W_tokens) |-> (t - 1) \div W_tokens]

\* column ids counted from one
ColIds_OneBased(H_tokens, W_tokens) ==
    [t \in 1..(H_tokens * W_tokens) |-> ((t - 1) % W_tokens) + 1]

\* arange(W_tokens).view(1, -1).repeat(H_tokens, 1).flatten()
ColIds(H_tokens, W_tokens) ==
    [t \in 1..(H_tokens * W_tokens) |-> (t - 1) % W_tokens]

\* position_ids[i] after the first loop: zeros, then the three assignments
PositionIdsRow(cap_len, img_len, H_tokens, W_tokens, max_seq_len) ==
    [s \in 1..max_seq_len |->
        IF s <= cap_len THEN <<s - 1, 0, 0>>
        ELSE IF s <= cap_len + img_len
             THEN <<cap_len,
                    RowIds(H_tokens, W_tokens)[s - cap_len],
                    ColIds(H_tokens, W_tokens)[s - cap_len]>>
             ELSE <<0, 0, 0>>]

PositionIds(cap_lens, img_lens, img_sizes, p, max_seq_len) ==
    [i \in 1..Len(cap_lens) |->
        PositionIdsRow(cap_lens[i], img_lens[i],
                       img_sizes[i][1] \div p, img_sizes[i][2] \div p, max_seq_len)]

\* cap_freqs_cis: zeros of length cap_feats.shape[1], then [i, :cap_len]
CapFreqs(freqs_cis, cap_lens, L, width) ==
    [i \in 1..Len(freqs_cis) |-> [s \in 1..L |->
        IF s <= cap_lens[i] THEN freqs_cis[i][s]
        ELSE [k \in 1..width |-> ZeroFreq]]]

\* an image slice copied from the start of the joint lookup
ImgFreqs_FromStart(freqs_cis, cap_lens, img_lens, max_img_len, width) ==
    [i \in 1..Len(freqs_cis) |-> [s \in 1..max_img_len |->
        IF s <= img_lens[i] THEN freqs_cis[i][s]
        ELSE [k \in 1..width |-> ZeroFreq]]]

\* img_freqs_cis: zeros of length max_img_len, then [i, :img_len]
ImgFreqs(freqs_cis, cap_lens, img_lens, max_img_len, width) ==
    [i \in 1..Len(freqs_cis) |-> [s \in 1..max_img_len |->
        IF s <= img_lens[i] THEN freqs_cis[i][cap_lens[i] + s]
        ELSE [k \in 1..width |-> ZeroFreq]]]

\* the shape handed to img.view
PatchViewShape(img, p) ==
    <<img.shape[1], img.shape[2] \div p, p, img.shape[3] \div p, p>>

\* img.view(C, H // pH, pH, W // pW, pW).permute(1, 3, 2, 4, 0)
\*    .flatten(2).flatten(0, 1)
Patchify(img, p) ==
    TFlatten(TFlatten(TPermute(TView(img, PatchViewShape(img, p)),
                               <<1, 3, 2, 4, 0>>), 2, 4), 0, 1)

\* padded_img_mask
PaddedImgMask(img_lens, max_img_len) ==
    [i \in 1..Len(img_lens) |-> [s \in 1..max_img_len |-> s <= img_lens[i]]]

\* padded_img_embed after x_embedder and the noise refiner
PaddedImgEmbed(flat_x, img_lens, max_img_len, width) ==
    [i \in 1..Len(flat_x) |-> [s \in 1..max_img_len |->
        ImgToken(i, s, IF s <= img_lens[i] THEN flat_x[i][s]
                       ELSE [j \in 1..width |-> 0])]]

\* the packed mask marking the caption tokens only
PackedMask_CaptionOnly(cap_lens, img_lens, max_seq_len) ==
    [i \in 1..Len(cap_lens) |-> [s \in 1..max_seq_len |-> s <= cap_lens[i]]]

\* mask[i, : cap_len + img_len] = True
PackedMask(cap_lens, img_lens, max_seq_len) ==
    [i \in 1..Len(cap_lens) |-> [s \in 1..max_seq_len |-> s <= cap_lens[i] + img_lens[i]]]

\* packing that copies every row's image tokens from the first sample
PaddedFullEmbed_FirstSample(cap_feats, padded_img_embed, cap_lens, img_lens, max_seq_len) ==
    [i \in 1..Len(cap_lens) |-> [s \in 1..max_seq_len |->
        IF s <= cap_lens[i] THEN cap_feats[i][s]
        ELSE IF s <= cap_lens[i] + img_lens[i]
             THEN padded_img_embed[1][s - cap_lens[i]]
             ELSE ZeroToken]]

\* padded_full_embed: zeros, then the two slice assignments of the last loop
PaddedFullEmbed(cap_feats, padded_img_embed, cap_lens, img_lens, max_seq_len) ==
    [i \in 1..Len(cap_lens) |-> [s \in 1..max_seq_len |->
        IF s <= cap_lens[i] THEN cap_feats[i][s]
        ELSE IF s <= cap_lens[i] + img_lens[i]
             THEN padded_img_embed[i][s - cap_lens[i]]
             ELSE ZeroToken]]

----------------------------------------------------------------------------
(* unpatchify *)

\* x[i][begin:end]
SliceRows(row, begin, end) == SubSeq(row, begin + 1, end)

\* unpatchify with the two grid dimensions exchanged in the view and permute
UnpatchifyOne_Swapped(row, size, begin, p, C) ==
    LET Ht == size[1] \div p
        Wt == size[2] \div p
        tok == FromRows(SliceRows(row, begin, begin + Ht * Wt), p * p * C)
    IN  TFlatten(TFlatten(TPermute(TView(tok, <<Wt, Ht, p, p, C>>),
                                   <<4, 1, 2, 0, 3>>), 3, 4), 1, 2)

\* x[i][begin:end].view(H // pH, W // pW, pH, pW, C).permute(4, 0, 2, 1, 3)
\*    .flatten(3, 4).flatten(1, 2)
UnpatchifyOne(row, size, begin, p, C) ==
    LET Ht == size[1] \div p
        Wt == size[2] \div p
        tok == FromRows(SliceRows(row, begin, begin + Ht * Wt), p * p * C)
    IN  TFlatten(TFlatten(TPermute(TView(tok, <<Ht, Wt, p, p, C>>),
                                   <<4, 0, 2, 1, 3>>), 3, 4), 1, 2)

Unpatchify(x, img_size, cap_size, p, C) ==
    [i \in 1..Len(x) |-> UnpatchifyOne(x[i], img_size[i], cap_size[i], p, C)]

----------------------------------------------------------------------------
(* State of the caller *)

NoCfg == [patch_size |-> 0, in_channels |-> 0, dim |-> 0, n_heads |-> 0,
          n_kv_heads |-> 0, axes_dims |-> <<>>, axes_lens |-> <<>>]

NoRope == [obj |-> 0, tables |-> <<>>]

NoCall == [x |-> <<>>, x_is_tensor |-> FALSE, cap_mask |-> <<>>,
           L |-> 0, device |-> "cpu"]

NoPE == [l_effective_cap_len |-> <<>>, img_sizes |-> <<>>,
         l_effective_img_len |-> <<>>, max_seq_len |-> 0, max_img_len |-> 0,
         position_ids |-> <<>>, freqs_cis |-> <<>>, cap_freqs_cis |-> <<>>,
         img_freqs_cis |-> <<>>, flat_x |-> <<>>, padded_img_mask |-> <<>>,
         mask |-> <<>>, padded_full_embed |-> <<>>]

NoImgs == [is_tensor |-> FALSE, items |-> <<>>]

Init ==
    /\ pc = "init"
    /\ cfg = NoCfg
    /\ rope = NoRope
    /\ call = NoCall
    /\ pe = NoPE
    /\ out = <<>>
    /\ imgs = NoImgs
    /\ err = "none"

----------------------------------------------------------------------------
(* Lumina.__init__ *)

\* head_dim as JointAttention computes it, and as the assertion reads it
HeadDim(dim, n_heads) == dim \div n_heads

\* the assertion on the exact quotient: dim == n_heads * sum(axes_dims)
AxesAssertion_Exact(c) == c.dim = c.n_heads * Sum(c.axes_dims)

\* assert (dim // n_heads) == sum(axes_dims)
AxesAssertion(c) == HeadDim(c.dim, c.n_heads) = Sum(c.axes_dims)

\* RopeEmbedder.__init__
NewRope(c) == [obj |-> 0, tables |-> precompute_freqs_cis(c.axes_dims, c.axes_lens)]

Construct(configs) ==
    /\ pc = "init"
    /\ \E c \in configs :
          IF AxesAssertion(c)
          THEN /\ pc' = "ready"
               /\ cfg' = c
               /\ rope' = NewRope(c)
               /\ err' = "none"
          ELSE /\ pc' = "construct_failed"
               /\ cfg' = c
               /\ rope' = NoRope
               /\ err' = "AssertionError"
    /\ UNCHANGED <<call, pe, out, imgs>>

\* precompute_freqs_cis(dim, end) called on its own; cfg keeps the arguments
Precompute(dims, ends) ==
    /\ pc = "init"
    /\ \E dim \in dims, end \in ends :
          /\ cfg' = [NoCfg EXCEPT !.axes_dims = dim, !.axes_lens = end]
          /\ rope' = [obj |-> 0, tables |-> precompute_freqs_cis(dim, end)]
    /\ pc' = "tables"
    /\ UNCHANGED <<call, pe, out, imgs, err>>

----------------------------------------------------------------------------
(* JointAttention.forward *)

\* the heads of xq, xk and xv after the three views: [bsz, seqlen, heads]
HeadTag(t, b, s, h) == [t |-> t, b |-> b, s |-> s, h |-> h]
QHead(b, s, h) == HeadTag("q", b, s, h)
KHead(b, s, h) == HeadTag("k", b, s, h)
VHead(b, s, h) == HeadTag("v", b, s, h)

HeadsOf(t, bsz, seqlen, n) ==
    [b \in 1..bsz |-> [s \in 1..seqlen |-> [h \in 1..n |-> HeadTag(t, b, s, h)]]]

\* self.n_local_heads // self.n_local_kv_heads
NRep(n_heads, n_kv_heads) == n_heads \div n_kv_heads

\* a repeat that tiles the key/value heads instead of repeating each in place
RepeatKV_Tiled(x, n_rep) ==
    IF n_rep >= 1
    THEN [b \in 1..Len(x) |-> [s \in 1..Len(x[b]) |->
            [h \in 1..(Len(x[b][s]) * n_rep) |->
                x[b][s][((h - 1) % Len(x[b][s])) + 1]]]]
    ELSE x

\* if n_rep >= 1: x.unsqueeze(3).repeat(1, 1, 1, n_rep, 1).flatten(2, 3);
\* element (kv, r) of the [n_kv_heads, n_rep] axes lands at kv * n_rep + r
RepeatKV(x, n_rep) ==
    IF n_rep >= 1
    THEN [b \in 1..Len(x) |-> [s \in 1..Len(x[b]) |->
            [h \in 1..(Len(x[b][s]) * n_rep) |->
                x[b][s][((h - 1) \div n_rep) + 1]]]]
    ELSE x

\* heads of a [bsz, seqlen, heads] tensor with bsz, seqlen >= 1
NumHeads(x) == Len(x[1][1])

\* F.scaled_dot_product_attention on the permuted tensors, permuted back:
\* head h of the output at (b, s) attends from query head h to head h of the
\* keys and values of every position of row b
Sdpa(xq, xk, xv) ==
    [b \in 1..Len(xq) |-> [s \in 1..Len(xq[b]) |-> [h \in 1..NumHeads(xq) |->
        [q |-> xq[b][s][h],
         k |-> [s2 \in 1..Len(xq[b]) |-> xk[b][s2][h]],
         v |-> [s2 \in 1..Len(xq[b]) |-> xv[b][s2][h]]]]]]

\* JointAttention(dim, n_heads, n_kv_heads).forward on x of [bsz, seqlen, dim]
JointAttentionForward(headss, bszs, seqlens) ==
    /\ pc = "init"
    /\ \E n_heads \in headss, n_kv_heads \in headss, bsz \in bszs, seqlen \in seqlens :
       \E xk \in {RepeatKV(HeadsOf("k", bsz, seqlen, n_kv_heads),
                           NRep(n_heads, n_kv_heads))} :
       \E xv \in {RepeatKV(HeadsOf("v", bsz, seqlen, n_kv_heads),
                           NRep(n_heads, n_kv_heads))} :
          /\ cfg' = [NoCfg EXCEPT !.n_heads = n_heads, !.n_kv_heads = n_kv_heads]
          /\ call' = [NoCall EXCEPT !.L = seqlen]
          /\ IF NumHeads(xk) # n_heads
             THEN \* the heads of query and key differ: the attention (or
                  \* self.out on its flattened output) raises
                  /\ pc' = "raised"
                  /\ err' = "RuntimeError_heads"
                  /\ out' = <<>>
             ELSE /\ pc' = "attended"
                  /\ err' = "none"
                  /\ out' = Sdpa(HeadsOf("q", bsz, seqlen, n_heads), xk, xv)
    /\ UNCHANGED <<rope, pe, imgs>>

----------------------------------------------------------------------------
(* Lumina.patchify_and_embed *)

\* the image of sample i: every element is a distinct non-zero number
Image(i, C, H, W) ==
    [shape |-> <<C, H, W>>, data |-> [n \in 1..(C * H * W) |-> i * 1000 + n]]

\* cap_feats as forward hands it over: the embedded caption tokens
CapFeats(bsz, L) == [i \in 1..bsz |-> [s \in 1..L |-> CapToken(i, s)]]

\* the first sample whose view raises, 0 if none does
FirstBadView(x, p) ==
    IF \A i \in 1..Len(x) : CanView(x[i], PatchViewShape(x[i], p)) THEN 0
    ELSE CHOOSE i \in 1..Len(x) :
            /\ ~CanView(x[i], PatchViewShape(x[i], p))
            /\ \A j \in 1..(i - 1) : CanView(x[j], PatchViewShape(x[j], p))

\* The whole of patchify_and_embed on an instance with configuration c and
\* rotary state r: [err, rope, ret], where ret holds the locals on return.
PatchifyAndEmbedResult(c, r, x, cap_mask, L, device) ==
    LET bsz == Len(x)
        p == c.patch_size
        cap_lens == EffectiveCapLen(cap_mask)
        img_sizes == ImgSizes(x)
        img_lens == EffectiveImgLen(img_sizes, p)
        max_seq_len == MaxSeqLen(cap_lens, img_lens)
        max_img_len == SeqMax(img_lens)
        position_ids ==
            PositionIds(cap_lens, img_lens, img_sizes, p, max_seq_len)
        r2 == RopeRebind(r, device)
        width == Sum([i \in 1..Len(r2.tables) |-> TableWidth(r2.tables[i])])
        freqs_cis == RopeEmbed(r2.tables, c.axes_dims, position_ids)
        flat_x == [i \in 1..bsz |-> TRows(Patchify(x[i], p))]
        padded_img_embed ==
            PaddedImgEmbed(flat_x, img_lens, max_img_len, p * p * c.in_channels)
    IN  IF bsz = 0
        THEN \* x[0].device
             [err |-> "IndexError", rope |-> r, ret |-> NoPE]
        ELSE IF ~RopeInRange(r2.tables, c.axes_dims, position_ids)
        THEN \* torch.gather in self.rope_embedder(position_ids)
             [err |-> "RuntimeError_gather", rope |-> r2, ret |-> NoPE]
        ELSE IF BlocksRaise(NRefinerLayers, bsz, L)
        THEN \* context_refiner on captions of length 0
             [err |-> "RuntimeError_reshape", rope |-> r2, ret |-> NoPE]
        ELSE IF FirstBadView(x, p) # 0
        THEN \* img.view(C, H // pH, pH, W // pW, pW)
             [err |-> "RuntimeError_view", rope |-> r2, ret |-> NoPE]
        ELSE IF BlocksRaise(NRefinerLayers, bsz, max_img_len)
        THEN \* noise_refiner on image sequences of length 0
             [err |-> "RuntimeError_reshape", rope |-> r2, ret |-> NoPE]
        ELSE [err |-> "none", rope |-> r2,
              ret |-> [l_effective_cap_len |-> cap_lens,
                       img_sizes |-> img_sizes,
                       l_effective_img_len |-> img_lens,
                       max_seq_len |-> max_seq_len,
                       max_img_len |-> max_img_len,
                       position_ids |-> position_ids,
                       freqs_cis |-> freqs_cis,
                       cap_freqs_cis |-> CapFreqs(freqs_cis, cap_lens, L, width),
                       img_freqs_cis |->
                           ImgFreqs(freqs_cis, cap_lens, img_lens, max_img_len, width),
                       flat_x |-> flat_x,
                       padded_img_mask |-> PaddedImgMask(img_lens, max_img_len),
                       mask |-> PackedMask(cap_lens, img_lens, max_seq_len),
                       padded_full_embed |->
                           PaddedFullEmbed(CapFeats(bsz, L), padded_img_embed,
                                           cap_lens, img_lens, max_seq_len)]]

\* A forward call up to the return of patchify_and_embed.  sizes, masks and
\* devices are the values the arguments are drawn from; a batched tensor x
\* holds images of one size.
PatchifyAndEmbed(bszs, sizes, masks, devices) ==
    /\ pc = "ready"
    /\ \E bsz \in bszs, device \in devices, x_is_tensor \in BOOLEAN :
       \E size \in [1..bsz -> sizes], cap_mask \in [1..bsz -> masks] :
          /\ x_is_tensor => \A i \in 1..bsz : size[i] = size[1]
          /\ \E x \in {[i \in 1..bsz |->
                         Image(i, cfg.in_channels, size[i][1], size[i][2])]} :
             \E res \in {PatchifyAndEmbedResult(cfg, rope, x, cap_mask, MaxCap, device)} :
                 /\ call' = [x |-> x, x_is_tensor |-> x_is_tensor,
                             cap_mask |-> cap_mask, L |-> MaxCap, device |-> device]
                 /\ rope' = res.rope
                 /\ pe' = res.ret
                 /\ err' = res.err
                 /\ pc' = IF res.err = "none" THEN "embedded" ELSE "raised"
    /\ UNCHANGED <<cfg, out, imgs>>

----------------------------------------------------------------------------
(* Lumina.forward after patchify_and_embed, and RopeEmbedder called alone *)

\* final_layer(x, adaln_input): one token of p*p*out_channels elements per
\* position of the packed sequence
FinalLayer(bsz, max_seq_len, width) ==
    [i \in 1..bsz |-> [s \in 1..max_seq_len |-> [j \in 1..width |-> OutElem(i, s, j)]]]

\* the loop over self.layers, then self.final_layer
Layers ==
    /\ pc = "embedded"
    /\ IF BlocksRaise(NLayers, Len(call.x), pe.max_seq_len)
       THEN /\ pc' = "raised"
            /\ err' = "RuntimeError_reshape"
            /\ out' = <<>>
       ELSE /\ pc' = "final"
            /\ err' = "none"
            /\ out' = FinalLayer(Len(call.x), pe.max_seq_len,
                                 cfg.patch_size * cfg.patch_size * cfg.in_channels)
    /\ UNCHANGED <<cfg, rope, call, pe, imgs>>

\* torch.stack(imgs, dim=0) needs tensors of one shape
CanStack(items) == \A i \in 1..Len(items) : items[i].shape = items[1].shape

\* self.unpatchify(x, img_size, cap_size, return_tensor=x_is_tensor), and the
\* return of forward
UnpatchifyStep ==
    /\ pc = "final"
    /\ \E items \in {Unpatchify(out, pe.img_sizes, pe.l_effective_cap_len,
                                cfg.patch_size, cfg.in_channels)} :
           IF call.x_is_tensor /\ ~CanStack(items)
           THEN /\ pc' = "raised"
                /\ err' = "RuntimeError_stack"
                /\ imgs' = NoImgs
           ELSE /\ pc' = "returned"
                /\ err' = "none"
                /\ imgs' = [is_tensor |-> call.x_is_tensor, items |-> items]
    /\ UNCHANGED <<cfg, rope, call, pe, out>>

\* the call is over: its arguments, locals and results are dropped
Return ==
    /\ pc \in {"returned", "raised", "rope_returned"}
    /\ pc' = "ready"
    /\ call' = NoCall
    /\ pe' = NoPE
    /\ out' = <<>>
    /\ imgs' = NoImgs
    /\ err' = "none"
    /\ UNCHANGED <<cfg, rope>>

\* self.rope_embedder(ids) on ids of the caller's choice
RopeCall(idss, devices) ==
    /\ pc = "ready"
    /\ \E ids \in idss, device \in devices :
          \E r2 \in {RopeRebind(rope, device)} :
              /\ rope' = r2
              /\ call' = [NoCall EXCEPT !.device = device]
              /\ IF RopeInRange(r2.tables, cfg.axes_dims, ids)
                 THEN /\ pc' = "rope_returned"
                      /\ err' = "none"
                      /\ pe' = [NoPE EXCEPT
                                  !.position_ids = ids,
                                  !.freqs_cis = RopeEmbed(r2.tables, cfg.axes_dims, ids)]
                 ELSE /\ pc' = "raised"
                      /\ err' = "RuntimeError_gather"
                      /\ pe' = [NoPE EXCEPT !.position_ids = ids]
    /\ UNCHANGED <<cfg, out, imgs>>

\* In place of the transformer: the patch tokens of each image, unchanged, at
\* the rows after its caption, zero rows elsewhere.
EchoTokens ==
    /\ pc = "embedded"
    /\ pc' = "final"
    /\ out' = [i \in 1..Len(call.x) |-> [s \in 1..pe.max_seq_len |->
                 LET c == pe.l_effective_cap_len[i]
                 IN  IF s > c /\ s <= c + pe.l_effective_img_len[i]
                     THEN pe.flat_x[i][s - c]
                     ELSE [j \in 1..(cfg.patch_size * cfg.patch_size * cfg.in_channels)
                              |-> 0]]]
    /\ UNCHANGED <<cfg, rope, call, pe, imgs, err>>

----------------------------------------------------------------------------
(* The values arguments are drawn from *)

\* caption masks of length MaxCap
Masks == [1..MaxCap -> BOOLEAN]

\* the masks of right-padded captions: True on a prefix
PrefixMasks == {[j \in 1..MaxCap |-> j <= n] : n \in 0..MaxCap}

\* image sizes (H, W) around a patch size p: no elements, not a multiple of
\* p, one patch, a row of patches, a square of patches
SizesAround(p) ==
    {<<p, 0>>, <<p + 1, 0>>, <<p + 1, p>>, <<p, p>>, <<p, 2 * p>>, <<2 * p, 2 * p>>}

DefaultConfig ==
    [patch_size |-> PatchSize, in_channels |-> InChannels, dim |-> 16,
     n_heads |-> 2, n_kv_heads |-> 2,
     axes_dims |-> <<2, 4, 2>>, axes_lens |-> <<MaxCap + 1, 2, 2>>]

\* constructor arguments with and without hidden_dim a multiple of n_heads
AllConfigs ==
    {[DefaultConfig EXCEPT !.dim = d, !.n_heads = h, !.n_kv_heads = h,
                           !.axes_dims = a] :
        d \in {8, 16, 17}, h \in {1, 2}, a \in {<<2, 4, 2>>, <<2, 2, 2>>}}

\* position ids of one or two tokens, in and out of the tables' range
IdsOf(B, S) == [1..B -> [1..S -> [1..3 -> 0..2]]]
SomeIds == IdsOf(1, 1) \cup IdsOf(1, 2) \cup IdsOf(2, 1)

\* configurations and image sizes of the round trip
RoundTripConfigs ==
    {[DefaultConfig EXCEPT !.patch_size = p, !.in_channels = C,
                           !.axes_lens = <<MaxCap + 1, MaxDim + 1, MaxDim + 1>>] :
        p \in 1..MaxPatch, C \in 1..MaxChan}

RoundTripSizes == (0..MaxDim) \X (0..MaxDim)

\* image sizes of grids of up to two rows and columns, and tables of up to
\* MaxCap + 1 caption positions and two rows and columns
GridSizes(p) == {<<p, 0>>, <<p, p>>, <<2 * p, p>>, <<p, 2 * p>>}
GridLens == 0..2
LensConfigs ==
    {[DefaultConfig EXCEPT !.axes_lens = <<l0, l1, l2>>] :
        l0 \in 1..(MaxCap + 1), l1 \in GridLens, l2 \in GridLens}

\* lists of one to three entries: the dim and end of precompute_freqs_cis
ListsOver(values) == UNION {[1..n -> values] : n \in 1..3}
AxisDimLists == ListsOver(1..MaxAxisDim)
AxisLenLists == ListsOver(0..MaxAxisLen)

----------------------------------------------------------------------------
(* Specifications *)

\* one call of forward on a batch of up to MaxBatch right-padded samples
Next ==
    \/ Construct({DefaultConfig})
    \/ PatchifyAndEmbed(0..MaxBatch, SizesAround(PatchSize), PrefixMasks, {"cpu"})
    \/ Layers
    \/ UnpatchifyStep

Spec == Init /\ [][Next]_vars

\* construction with every configuration, then calls on single samples
NextConfig ==
    \/ Construct(AllConfigs)
    \/ PatchifyAndEmbed(0..1, SizesAround(PatchSize), Masks, {"cpu"})
    \/ Layers
    \/ UnpatchifyStep
    \/ Return

SpecConfig == Init /\ [][NextConfig]_vars

\* calls of forward and of the rotary embedder on inputs of either device
NextRope ==
    \/ Construct({DefaultConfig})
    \/ RopeCall(SomeIds, Devices)
    \/ PatchifyAndEmbed(0..1, SizesAround(PatchSize), Masks, Devices)
    \/ Layers
    \/ UnpatchifyStep
    \/ Return

SpecRope == Init /\ [][NextRope]_vars

\* patchify, then unpatchify on the patch tokens themselves
NextRoundTrip ==
    \/ Construct(RoundTripConfigs)
    \/ PatchifyAndEmbed({1}, RoundTripSizes, Masks, {"cpu"})
    \/ EchoTokens
    \/ UnpatchifyStep
    \/ Return

SpecRoundTrip == Init /\ [][NextRoundTrip]_vars

\* forward on instances whose rotary tables are as short as the inputs
NextLens ==
    \/ Construct(LensConfigs)
    \/ PatchifyAndEmbed(1..2, GridSizes(PatchSize), PrefixMasks, {"cpu"})
    \/ Layers
    \/ UnpatchifyStep

SpecLens == Init /\ [][NextLens]_vars

\* precompute_freqs_cis on every pair of lists
NextFreqs == Precompute(AxisDimLists, AxisLenLists)

SpecFreqs == Init /\ [][NextFreqs]_vars

\* one attention call for every pair of head counts
NextAttention == JointAttentionForward(1..MaxHeads, 1..MaxBatch, 1..MaxCap)

SpecAttention == Init /\ [][NextAttention]_vars

----------------------------------------------------------------------------
(* Vocabulary of the properties, read off the arguments of the call *)

\* patchify_and_embed has returned in the call in progress
Embedded == pc \in {"embedded", "final", "returned"}

Batch == 1..Len(call.x)
Height(i) == call.x[i].shape[2]
Width(i) == call.x[i].shape[3]

\* number of True entries of sample i's caption mask
CapLen(i) == Cardinality({j \in 1..call.L : call.cap_mask[i][j]})

\* rows and columns of sample i's patch grid
GridRows(i) == Height(i) \div cfg.patch_size
GridCols(i) == Width(i) \div cfg.patch_size
ImgLen(i) == GridRows(i) * GridCols(i)

Divisible(i) ==
    /\ Height(i) % cfg.patch_size = 0
    /\ Width(i) % cfg.patch_size = 0

----------------------------------------------------------------------------
(* C1 *)

----------------------------------------------------------------------------
(* C2 *)

\* C2: the mask patchify_and_embed returns has, as its second dimension, the
\* largest effective_caption_len + effective_image_len of the batch, and row
\* i is True exactly at the indices below sample i's own sum.
C2_Mask ==
    Embedded =>
        /\ Len(pe.mask) = Len(call.x)
        /\ \A i \in Batch :
              /\ \A j \in Batch : Len(pe.mask[i]) >= CapLen(j) + ImgLen(j)
              /\ \E j \in Batch : Len(pe.mask[i]) = CapLen(j) + ImgLen(j)
              /\ \A s \in 1..Len(pe.mask[i]) :
                    pe.mask[i][s] <=> (s <= CapLen(i) + ImgLen(i))

\* two samples of different effective lengths: the shorter row ends in False
C2_Witness ==
    /\ Embedded
    /\ Len(call.x) = 2
    /\ CapLen(1) = 1 /\ ImgLen(1) = 1
    /\ CapLen(2) = 2 /\ ImgLen(2) = 4
    /\ pe.mask[1] = <<TRUE, TRUE, FALSE, FALSE, FALSE, FALSE>>
    /\ pe.mask[2] = <<TRUE, TRUE, TRUE, TRUE, TRUE, TRUE>>

----------------------------------------------------------------------------
(* C3 *)

\* the rows of out that the elements of an unpatchified image were read from
RowsRead(img) == {<<img.data[n].b, img.data[n].s>> : n \in 1..Len(img.data)}

\* C3: row i of the packed sequence holds sample i's first cap_len refined
\* caption tokens, then its own img_len refined image tokens (embedded from
\* its own patches), then zeros; and unpatchify builds image i from exactly
\* the rows cap_size[i] .. cap_size[i] + (H_i/patch)(W_i/patch) - 1 of row i.
C3_OwnContent ==
    /\ Embedded =>
          \A i \in Batch : \A s \in 1..pe.max_seq_len :
              LET tok == pe.padded_full_embed[i][s]
              IN  IF s <= CapLen(i)
                  THEN tok = CapToken(i, s)
                  ELSE IF s <= CapLen(i) + ImgLen(i)
                       THEN /\ tok.k = "img"
                            /\ tok.b = i
                            /\ tok.s = s - CapLen(i)
                            /\ Len(tok.src) =
                                  cfg.patch_size * cfg.patch_size * cfg.in_channels
                            /\ \A j \in 1..Len(tok.src) : tok.src[j] \div 1000 = i
                       ELSE tok = ZeroToken
    /\ pc = "returned" =>
          \A i \in Batch :
              RowsRead(imgs.items[i]) =
                  IF ImgLen(i) = 0 THEN {}
                  ELSE {<<i, s>> : s \in (CapLen(i) + 1)..(CapLen(i) + ImgLen(i))}

\* images of different sizes in one call, the smaller one first, both unpacked
C3_Witness ==
    /\ pc = "returned"
    /\ Len(call.x) = 2
    /\ ImgLen(1) = 2 /\ ImgLen(2) = 4
    /\ CapLen(1) = 2 /\ CapLen(2) = 1
    /\ pe.padded_full_embed[1][5] = ZeroToken
    /\ pe.padded_full_embed[2][5].b = 2
    /\ RowsRead(imgs.items[1]) = {<<1, 3>>, <<1, 4>>}

----------------------------------------------------------------------------
(* C4 *)

\* C4: for a sample with effective caption length c and a patch grid of R
\* rows and W columns, the position id at index k < c is (k, 0, 0), at index
\* c + r*W + j it is (c, r, j), and from c + R*W on it is (0, 0, 0).
C4_PositionIds ==
    Embedded =>
        \A i \in Batch :
            LET c == CapLen(i)
                R == GridRows(i)
                W == GridCols(i)
                ids == pe.position_ids[i]
            IN  /\ Len(ids) = pe.max_seq_len
                /\ \A k \in 0..(c - 1) : ids[k + 1] = <<k, 0, 0>>
                /\ \A r \in 0..(R - 1) : \A j \in 0..(W - 1) :
                      ids[c + r * W + j + 1] = <<c, r, j>>
                /\ \A k \in (c + R * W)..(pe.max_seq_len - 1) :
                      ids[k + 1] = <<0, 0, 0>>

\* a grid of one row and two columns behind one caption token, padded
C4_Witness ==
    /\ Embedded
    /\ Len(call.x) = 2
    /\ CapLen(1) = 1 /\ GridRows(1) = 1 /\ GridCols(1) = 2
    /\ pe.max_seq_len = 6
    /\ pe.position_ids[1] =
          <<<<0, 0, 0>>, <<1, 0, 0>>, <<1, 0, 1>>, <<0, 0, 0>>, <<0, 0, 0>>, <<0, 0, 0>>>>
    /\ pe.position_ids[2][6] = <<2, 1, 1>>

----------------------------------------------------------------------------
(* C5 *)

\* C5: when a height or a width of the batch is not a multiple of patch_size,
\* patchify_and_embed raises: no packed sequence is returned for such a batch.
C5_NonMultipleRaises ==
    (\E i \in Batch : ~Divisible(i)) => ~Embedded

----------------------------------------------------------------------------
(* C6 *)

\* the call raised inside patchify_and_embed
RaisedInPatchifyAndEmbed == pc = "raised" /\ pe = NoPE /\ err # "RuntimeError_stack"

\* an input of the edge cases, otherwise well-formed
EdgeCaseInput ==
    /\ \A i \in Batch : Divisible(i)
    /\ \/ Len(call.x) = 0
       \/ \E i \in Batch : CapLen(i) = 0
       \/ \E i \in Batch : Height(i) = 0 \/ Width(i) = 0

\* C6: patchify_and_embed does not raise on an empty batch, on a caption mask
\* that is all False, or on an image of zero height or width.
C6_EdgeCasesComplete ==
    RaisedInPatchifyAndEmbed => ~EdgeCaseInput

----------------------------------------------------------------------------
(* C7 *)

\* C7: once the instance is constructed, no call changes its configuration
\* or its rope embedder: the freqs_cis attribute is never rebound or modified.
C7_InstanceUnchanged ==
    [][pc # "init" => (cfg' = cfg /\ rope' = rope)]_vars

----------------------------------------------------------------------------
(* C8 *)

\* C8: forward returns a stacked tensor exactly when x was a tensor, a list
\* exactly when x was a list, and output i has input i's height and width.
C8_SameConvention ==
    pc = "returned" =>
        /\ imgs.is_tensor = call.x_is_tensor
        /\ Len(imgs.items) = Len(call.x)
        /\ \A i \in Batch :
              /\ imgs.items[i].shape[2] = Height(i)
              /\ imgs.items[i].shape[3] = Width(i)

----------------------------------------------------------------------------
(* C9 *)

\* sum(axes_dims) is the quotient of dim by n_heads, rounded down
FloorQuotientMatches ==
    /\ cfg.n_heads * Sum(cfg.axes_dims) <= cfg.dim
    /\ cfg.dim < cfg.n_heads * (Sum(cfg.axes_dims) + 1)

Constructed == pc \notin {"init", "construct_failed"}

\* C9 as stated: an instance exists only if dim / n_heads, taken exactly,
\* equals sum(axes_dims).
C9_ExactQuotient ==
    Constructed => cfg.dim = cfg.n_heads * Sum(cfg.axes_dims)

\* C9: construction yields an instance exactly when dim // n_heads (the
\* quotient rounded down) equals sum(axes_dims); otherwise it aborts with an
\* AssertionError and there is no instance and no rope embedder.
C9_FloorQuotient ==
    /\ Constructed => FloorQuotientMatches /\ rope # NoRope /\ err # "AssertionError"
    /\ pc = "construct_failed" =>
          ~FloorQuotientMatches /\ rope = NoRope /\ err = "AssertionError"

\* an instance whose dim is not a multiple of n_heads
C9_Witness ==
    /\ pc = "ready"
    /\ cfg.dim = 17 /\ cfg.n_heads = 2 /\ cfg.axes_dims = <<2, 4, 2>>
    /\ Len(rope.tables) = 3

----------------------------------------------------------------------------
(* C10 *)

\* C10: for ids [batch, seq_len, 3] in range, RopeEmbedder returns
\* [batch, seq_len, sum(axes_dims)/2] whose entry (b, s) is row ids[b][s][1]
\* of the first table, then row ids[b][s][2] of the second, then row
\* ids[b][s][3] of the third: a function of the token's own id.
C10_RopeOutput ==
    (pc = "rope_returned" \/ Embedded) =>
        /\ Len(pe.freqs_cis) = Len(pe.position_ids)
        /\ \A b \in 1..Len(pe.position_ids) :
              /\ Len(pe.freqs_cis[b]) = Len(pe.position_ids[b])
              /\ \A s \in 1..Len(pe.position_ids[b]) :
                    LET id == pe.position_ids[b][s]
                    IN  /\ Len(pe.freqs_cis[b][s]) = Sum(cfg.axes_dims) \div 2
                        /\ pe.freqs_cis[b][s] =
                              rope.tables[1].rows[id[1] + 1]
                                 \o rope.tables[2].rows[id[2] + 1]
                                 \o rope.tables[3].rows[id[3] + 1]

\* two tokens of one sequence with different ids on every axis
C10_Witness ==
    /\ pc = "rope_returned"
    /\ pe.position_ids = <<<<<<1, 0, 1>>, <<2, 1, 0>>>>>>
    /\ pe.freqs_cis[1][1] = <<Cis(1, 0, 2), Cis(0, 0, 4), Cis(0, 2, 4), Cis(1, 0, 2)>>
    /\ pe.freqs_cis[1][2] = <<Cis(2, 0, 2), Cis(1, 0, 4), Cis(1, 2, 4), Cis(0, 0, 2)>>

----------------------------------------------------------------------------
(* C11 *)

Ceil2(d) == IF d % 2 = 0 THEN d \div 2 ELSE (d \div 2) + 1

\* C11 as stated: one table per axis, and table i has axes_lens[i] rows of
\* exactly axes_dims[i] / 2 columns.
C11_HalfColumns ==
    pc = "tables" /\ Len(cfg.axes_dims) = Len(cfg.axes_lens) =>
        /\ Len(rope.tables) = Len(cfg.axes_dims)
        /\ \A i \in 1..Len(rope.tables) :
              /\ Len(rope.tables[i].rows) = cfg.axes_lens[i]
              /\ \A p \in 1..cfg.axes_lens[i] :
                    2 * Len(rope.tables[i].rows[p]) = cfg.axes_dims[i]

\* C11: precompute_freqs_cis returns one table per pair of zip(dim, end), in
\* order; table i has end[i] rows (positions 0..end[i]-1) and one column per
\* value of arange(0, dim[i], 2), that is dim[i]/2 rounded up, and its entry
\* at position p and column k depends on p, k and dim[i] alone.
C11_Tables ==
    pc = "tables" =>
        /\ Len(rope.tables) <= Len(cfg.axes_dims)
        /\ Len(rope.tables) <= Len(cfg.axes_lens)
        /\ Len(rope.tables) = Len(cfg.axes_dims)
              \/ Len(rope.tables) = Len(cfg.axes_lens)
        /\ \A i \in 1..Len(rope.tables) :
              /\ rope.tables[i].dev = "cpu"
              /\ Len(rope.tables[i].rows) = cfg.axes_lens[i]
              /\ \A p \in 1..cfg.axes_lens[i] :
                    /\ Len(rope.tables[i].rows[p]) = Ceil2(cfg.axes_dims[i])
                    /\ \A k \in 1..Ceil2(cfg.axes_dims[i]) :
                          rope.tables[i].rows[p][k] =
                              Cis(p - 1, 2 * (k - 1), cfg.axes_dims[i])

\* three axes of different lengths, the first of odd dimension
C11_Witness ==
    /\ pc = "tables"
    /\ cfg.axes_dims = <<3, 4, 2>>
    /\ cfg.axes_lens = <<1, 2, 0>>
    /\ Len(rope.tables[1].rows[1]) = 2
    /\ rope.tables[2].rows[2] = <<Cis(1, 0, 4), Cis(1, 2, 4)>>
    /\ rope.tables[3].rows = <<>>

----------------------------------------------------------------------------
(* C12 *)

\* query heads whose keys at (b, s) come from key head j
UsersOfKey(b, s, j) ==
    {h \in 1..cfg.n_heads : \A s2 \in 1..call.L : out[b][s][h].k[s2] = KHead(b, s2, j)}

\* C12: when n_kv_heads divides n_heads, the attention output has n_heads
\* heads, query head h (from 0) attends to key head and value head
\* h div (n_heads / n_kv_heads), and so every key/value head serves exactly
\* n_heads / n_kv_heads query heads.
C12_HeadPairing ==
    (pc \in {"attended", "raised"} /\ cfg.n_heads % cfg.n_kv_heads = 0) =>
        /\ pc = "attended"
        /\ \A b \in 1..Len(out) : \A s \in 1..call.L :
              /\ Len(out[b][s]) = cfg.n_heads
              /\ \A h \in 0..(cfg.n_heads - 1) :
                    LET j == h \div (cfg.n_heads \div cfg.n_kv_heads)
                        o == out[b][s][h + 1]
                    IN  /\ o.q = QHead(b, s, h + 1)
                        /\ \A s2 \in 1..call.L :
                              /\ o.k[s2] = KHead(b, s2, j + 1)
                              /\ o.v[s2] = VHead(b, s2, j + 1)
              /\ \A j \in 1..cfg.n_kv_heads :
                    Cardinality(UsersOfKey(b, s, j)) * cfg.n_kv_heads = cfg.n_heads

\* eight query heads on two key/value heads: four query heads each
C12_Witness ==
    /\ pc = "attended"
    /\ cfg.n_heads = 8 /\ cfg.n_kv_heads = 2
    /\ Len(out) = 2 /\ call.L = 2
    /\ UsersOfKey(2, 1, 1) = {1, 2, 3, 4}
    /\ UsersOfKey(2, 1, 2) = {5, 6, 7, 8}

----------------------------------------------------------------------------
(* C13 *)

\* an entry of a rotary slice that was never written: zeros of the joint width
ZeroEntry(e) ==
    /\ Len(e) = Sum(cfg.axes_dims) \div 2
    /\ \A k \in 1..Len(e) : e[k] = ZeroFreq

\* C13: per sample i the caption slice has the padded caption length of
\* cap_feats, its entries below cap_len_i are the joint entries at the same
\* indices; the image slice has max_image_len entries, its entries below
\* img_len_i are the joint entries from cap_len_i on; all other entries of
\* both slices are zero.
C13_RotarySlices ==
    Embedded =>
        \A i \in Batch :
            /\ Len(pe.cap_freqs_cis[i]) = call.L
            /\ \A s \in 1..call.L :
                  IF s <= CapLen(i)
                  THEN pe.cap_freqs_cis[i][s] = pe.freqs_cis[i][s]
                  ELSE ZeroEntry(pe.cap_freqs_cis[i][s])
            /\ \A j \in Batch : Len(pe.img_freqs_cis[i]) >= ImgLen(j)
            /\ \E j \in Batch : Len(pe.img_freqs_cis[i]) = ImgLen(j)
            /\ \A s \in 1..Len(pe.img_freqs_cis[i]) :
                  IF s <= ImgLen(i)
                  THEN pe.img_freqs_cis[i][s] = pe.freqs_cis[i][CapLen(i) + s]
                  ELSE ZeroEntry(pe.img_freqs_cis[i][s])

\* a one-token image behind a one-token caption, next to a 2x2 grid
C13_Witness ==
    /\ Embedded
    /\ Len(call.x) = 2
    /\ CapLen(1) = 1 /\ ImgLen(1) = 1 /\ ImgLen(2) = 4 /\ CapLen(2) = 2
    /\ pe.cap_freqs_cis[1][1] = pe.freqs_cis[1][1]
    /\ ZeroEntry(pe.cap_freqs_cis[1][2])
    /\ pe.img_freqs_cis[1][1] = pe.freqs_cis[1][2]
    /\ pe.img_freqs_cis[1][1] # pe.freqs_cis[1][1]
    /\ ZeroEntry(pe.img_freqs_cis[1][4])
    /\ pe.img_freqs_cis[2][4] = <<Cis(2, 0, 2), Cis(1, 0, 4), Cis(1, 2, 4), Cis(1, 0, 2)>>

----------------------------------------------------------------------------
(* C14 *)

\* patchify_and_embed was called on a batch of at least one sample
Called == pc \in {"embedded", "final", "returned", "raised"} /\ Len(call.x) > 0

\* C14 as stated: captions of at most axes_lens[0] tokens and grids of at
\* most axes_lens[1] rows and axes_lens[2] columns never index out of bounds.
C14_FitsTables ==
    (/\ Called
     /\ \A i \in Batch :
           /\ CapLen(i) <= cfg.axes_lens[1]
           /\ GridRows(i) <= cfg.axes_lens[2]
           /\ GridCols(i) <= cfg.axes_lens[3])
        => err # "RuntimeError_gather"

\* the tables have room for the image tokens' id on the caption axis
StrictlyFits ==
    /\ \A a \in 1..3 : cfg.axes_lens[a] >= 1
    /\ \A i \in Batch :
          /\ CapLen(i) <= cfg.axes_lens[1]
          /\ ImgLen(i) > 0 => CapLen(i) < cfg.axes_lens[1]
          /\ GridRows(i) <= cfg.axes_lens[2]
          /\ GridCols(i) <= cfg.axes_lens[3]

\* C14: whenever every axes_lens[i] is at least 1, every caption has at most
\* axes_lens[0] tokens and fewer than axes_lens[0] if its sample has image
\* tokens (they carry the caption length as their id), and every grid has at
\* most axes_lens[1] rows and axes_lens[2] columns, the lookup does not index
\* out of bounds: every id on axis i lies in [0, axes_lens[i]).
C14_StrictlyFitsTables ==
    (Called /\ StrictlyFits) =>
        /\ err # "RuntimeError_gather"
        /\ Embedded =>
              \A i \in Batch : \A s \in 1..Len(pe.position_ids[i]) : \A a \in 1..3 :
                  /\ pe.position_ids[i][s][a] >= 0
                  /\ pe.position_ids[i][s][a] < cfg.axes_lens[a]

\* a caption one short of the table and a grid that fills both grid tables
C14_Witness ==
    /\ Embedded /\ StrictlyFits
    /\ Len(call.x) = 2
    /\ cfg.axes_lens = <<2, 2, 1>>
    /\ CapLen(1) = 1 /\ GridRows(1) = 2 /\ GridCols(1) = 1
    /\ CapLen(2) = 2 /\ ImgLen(2) = 0
    /\ pe.position_ids[1] = <<<<0, 0, 0>>, <<1, 0, 0>>, <<1, 1, 0>>>>
    /\ pe.position_ids[2] = <<<<0, 0, 0>>, <<1, 0, 0>>, <<0, 0, 0>>>>

----------------------------------------------------------------------------
(* C15 *)

\* the position of the n-th True entry of sample i's caption mask
NthTrue(i, n) ==
    CHOOSE s \in 1..call.L :
        /\ call.cap_mask[i][s]
        /\ Cardinality({j \in 1..s : call.cap_mask[i][j]}) = n

\* C15: for every caption mask, prefix or not, the caption tokens packed for
\* sample i are the tokens at the True positions of its mask, in order.
C15_MaskedCaptionTokens ==
    Embedded =>
        \A i \in Batch : \A n \in 1..CapLen(i) :
            pe.padded_full_embed[i][n] = CapToken(i, NthTrue(i, n))

====
